---- MODULE Spec2Model ----
(***************************************************************************)
(* Model of routing/views.py of fuel-route-api: the route segmenter        *)
(* (calculate_route_segments), the fuel stop locator                       *)
(* (find_optimal_fuel_stops) and the request handler                       *)
(* (OptimizedRouteView.post) with its helpers.                             *)
(*                                                                         *)
(* Units.  A coordinate is a position on one straight east-west road, an   *)
(* integer number of miles east of longitude -125 (the latitude is fixed   *)
(* and inside the handler's bounding box).  One mile is 1/69 degree, the   *)
(* conversion the code itself uses (MILES_TO_DEGREES).  Prices and costs   *)
(* are integer cents, gallons and the rounded per-stop distance are        *)
(* integer hundredths.  Floating-point noise is not modelled.              *)
(***************************************************************************)
EXTENDS Integers, Sequences, FiniteSets, TLC

VARIABLES
    pc,                 \* "call" before the operation runs, "returned" after
    route_coordinates,  \* calculate_route_segments: argument
    max_segment_length, \* calculate_route_segments: argument
    seg_ret,            \* calculate_route_segments: what the call produced
    route_segment,      \* find_optimal_fuel_stops: argument
    segment_distance,   \* find_optimal_fuel_stops: argument
    stations,           \* find_optimal_fuel_stops: the query's answer (line 87)
    fs_ret,             \* find_optimal_fuel_stops: what the call produced
    nominatim,          \* the geocoder's answer to each location text
    ors,                \* the route provider's answer to a directions call
    fuel_table,         \* the FuelStation table
    cache,              \* django cache: key -> response_data
    request,            \* the POST body: [start, end]
    response,           \* what post returned
    calls               \* the external calls post made for that request

vars == <<pc, route_coordinates, max_segment_length, seg_ret, route_segment,
          segment_distance, stations, fs_ret, nominatim, ors, fuel_table,
          cache, request, response, calls>>

\* Python's None, as a text (an exception's name, an error message) ...
None == "None"

\* ... and as an optional value: None, or a value.
NoValue(default) == [is_none |-> TRUE, value |-> default]
Some(v) == [is_none |-> FALSE, value |-> v]

----------------------------------------------------------------------------
(* Bounds of the model                                                     *)

GridMiles == 250
MaxGrid == 5
MaxPoints == 3
MaxSegGrid == 2

Positions == {k * GridMiles : k \in 0..MaxGrid}
SegmentLengths == {k * GridMiles : k \in 1..MaxSegGrid}
Routes == UNION {[1..n -> Positions] : n \in 0..MaxPoints}

----------------------------------------------------------------------------
(* Module constants, views.py lines 22-27                                  *)

MAX_RANGE_MILES == 500
MPG == 10
SEARCH_RADIUS_MILES == 25
MILES_PER_DEGREE == 69

Abs(x) == IF x < 0 THEN -x ELSE x

\* geodesic(prev_point, current_point).miles, on the road
geodesic_miles(a, b) == Abs(b - a)

----------------------------------------------------------------------------
(* calculate_route_segments                                                *)

\* The state of the loop before its first iteration (lines 35-38).
SegmentsStart(route) ==
    [segments |-> <<>>,
     current_segment |-> <<route[1]>>,
     cumulative_distance |-> 0,
     segment_distances |-> <<>>,
     raised |-> None]

\* split_point of lines 49-53: ratio = remaining_dist / dist, and
\* prev + ratio * (cur - prev).  On the road |cur - prev| = dist, so the
\* division is exact.
split_point(prev, cur, remaining_dist, dist) ==
    prev + (remaining_dist * (cur - prev)) \div dist

\* A plausible slip: the running distance restarts at 0 after a split, the
\* remainder of the split pair forgotten.
SplitBranchForgetsRemainder(st, prev, cur, dist, M) ==
    LET remaining_dist == M - st.cumulative_distance IN
    IF dist = 0
    THEN [st EXCEPT !.raised = "ZeroDivisionError"]
    ELSE LET sp == split_point(prev, cur, remaining_dist, dist) IN
         [segments |-> Append(st.segments, Append(st.current_segment, sp)),
          segment_distances |->
              Append(st.segment_distances, st.cumulative_distance + remaining_dist),
          current_segment |-> <<sp, cur>>,
          cumulative_distance |-> 0,
          raised |-> None]

\* Lines 47-60: the branch taken when the pair would exceed max_segment_length.
\* remaining_dist / dist is a float division: it raises on dist = 0.
SplitBranch(st, prev, cur, dist, M) ==
    LET remaining_dist == M - st.cumulative_distance IN
    IF dist = 0
    THEN [st EXCEPT !.raised = "ZeroDivisionError"]
    ELSE LET sp == split_point(prev, cur, remaining_dist, dist) IN
         [segments |-> Append(st.segments, Append(st.current_segment, sp)),
          segment_distances |->
              Append(st.segment_distances, st.cumulative_distance + remaining_dist),
          current_segment |-> <<sp, cur>>,
          cumulative_distance |-> dist - remaining_dist,
          raised |-> None]

\* Lines 41-63: one iteration of the loop, on the pair (prev, cur).
SegmentLoopBody(st, prev, cur, M) ==
    LET dist == geodesic_miles(prev, cur) IN
    IF st.cumulative_distance + dist > M
    THEN SplitBranch(st, prev, cur, dist, M)
    ELSE [st EXCEPT !.current_segment = Append(@, cur),
                    !.cumulative_distance = @ + dist]

\* Line 40: for i in range(1, len(route_coordinates)); i is 1-based here.
RECURSIVE SegmentLoop(_, _, _, _)
SegmentLoop(st, route, i, M) ==
    IF i > Len(route) \/ st.raised # None
    THEN st
    ELSE SegmentLoop(SegmentLoopBody(st, route[i - 1], route[i], M), route, i + 1, M)

\* Lines 30-69.  route_coordinates[0] of an empty list raises IndexError.
calculate_route_segments(route, M) ==
    IF route = <<>>
    THEN [raised |-> "IndexError", segments |-> <<>>, segment_distances |-> <<>>]
    ELSE LET st == SegmentLoop(SegmentsStart(route), route, 2, M) IN
         IF st.raised # None
         THEN [raised |-> st.raised, segments |-> <<>>, segment_distances |-> <<>>]
         ELSE IF Len(st.current_segment) > 1
              THEN [raised |-> None,
                    segments |-> Append(st.segments, st.current_segment),
                    segment_distances |->
                        Append(st.segment_distances, st.cumulative_distance)]
              ELSE [raised |-> None,
                    segments |-> st.segments,
                    segment_distances |-> st.segment_distances]

----------------------------------------------------------------------------
(* find_optimal_fuel_stops                                                 *)

\* A FuelStation row (models.py): its price in cents and its location.  The
\* name, address, city and state are copied through unread and left out.
Prices == {300, 350}
MaxStations == 3
StationPositions == {0, GridMiles, 2 * GridMiles}
StationPool == [price : Prices, location : StationPositions]

\* The table: its rows in their physical order, and whether the database
\* answers queries or raises.
Distinct(s) == \A i, j \in DOMAIN s : i # j => s[i] # s[j]
StationRows ==
    {t \in UNION {[1..n -> StationPool] : n \in 0..MaxStations} : Distinct(t)}
FuelTables ==
    [up : {TRUE}, rows : StationRows] \cup {[up |-> FALSE, rows |-> <<>>]}

Min(a, b) == IF a <= b THEN a ELSE b
Max(a, b) == IF a >= b THEN a ELSE b

\* Python's round(): n / d to the nearest integer, halves to the even one.
RoundHalfEven(n, d) ==
    LET q == n \div d
        r == n % d
    IN  IF 2 * r < d THEN q
        ELSE IF 2 * r > d THEN q + 1
        ELSE IF q % 2 = 0 THEN q ELSE q + 1

\* math.ceil(a / b) for a >= 0, b > 0
Ceil(a, b) == (a + b - 1) \div b

\* Python's order on tuples of numbers of one length: k1 < k2.
TupleLess(k1, k2) ==
    \E i \in DOMAIN k1 : k1[i] < k2[i] /\ \A j \in 1..(i - 1) : k1[j] = k2[j]

\* A stable sort, as sorted(key=...) is and as ORDER BY is on the row order:
\* keys[i] is the key of s[i].  An element goes after those with a smaller
\* key and after the earlier ones with an equal key.
SortStable(s, keys) ==
    LET rank(i) == 1 + Cardinality({j \in DOMAIN s :
                        \/ TupleLess(keys[j], keys[i])
                        \/ (~TupleLess(keys[i], keys[j]) /\ j < i)})
    IN  [k \in DOMAIN s |-> s[CHOOSE i \in DOMAIN s : rank(i) = k]]

\* Planar distance from a position to the polyline of the segment.
DistanceToPair(x, a, b) ==
    IF x < Min(a, b) THEN Min(a, b) - x
    ELSE IF x > Max(a, b) THEN x - Max(a, b)
    ELSE 0

DistanceToLine(x, seg) ==
    LET ds == {DistanceToPair(x, seg[k], seg[k + 1]) : k \in 1..(Len(seg) - 1)}
    IN  CHOOSE d \in ds : \A e \in ds : d <= e

\* Lines 81-89: the rows whose location intersects
\* line.buffer(SEARCH_RADIUS_MILES * MILES_TO_DEGREES), ordered by price.
\* The buffer is 25/69 degree wide, which is 25 miles of the road.
QueryStations(table, seg) ==
    LET hit == SelectSeq(table.rows, LAMBDA s : DistanceToLine(s.location, seg)
                                                    <= SEARCH_RADIUS_MILES)
    IN  SortStable(hit, [k \in DOMAIN hit |-> <<hit[k].price>>])

\* Line 109: s.location.distance(point) <= D(mi=SEARCH_RADIUS_MILES).m.
\* GEOS distance is planar, in the units of the coordinates: degrees, that is
\* miles / 69.  D(mi=25).m is 25 * 1609.344 metres.  Both sides are scaled by
\* 69 * 125 to stay in the integers (1609.344 * 125 = 201168).
METRES_PER_MILE_X125 == 201168

geos_distance_x69(a, b) == Abs(a - b)

WithinSearchRadius(s, point) ==
    geos_distance_x69(s.location, point) * 125
        <= MILES_PER_DEGREE * SEARCH_RADIUS_MILES * METRES_PER_MILE_X125

\* A plausible slip: the sort key with the distance before the price.
stop_key_distance_first(s, point) ==
    <<geos_distance_x69(s.location, point), s.price>>

\* Line 110: key=lambda s: (s.price, s.location.distance(point))
stop_key(s, point) == <<s.price, geos_distance_x69(s.location, point)>>

\* Line 95
required_stops(distance) == Max(1, Ceil(distance, MAX_RANGE_MILES))

\* Lines 100-102: the target point of stop i (0-based i, 1-based index).
\* int(len * (i + 0.5) / required) = floor(len * (2i + 1) / (2 * required)).
segment_index(seg, i, required) ==
    Min((Len(seg) * (2 * i + 1)) \div (2 * required), Len(seg) - 1) + 1

stop_point(seg, i, required) == seg[segment_index(seg, i, required)]

\* Lines 108-111: the candidates of one target, sorted
nearby(found, point) ==
    LET near == SelectSeq(found, LAMBDA s : WithinSearchRadius(s, point))
    IN  SortStable(near, [k \in DOMAIN near |-> stop_key(near[k], point)])

\* Lines 114-133: the stop bought at the station nearest_cheapest.
\* gallons = min(distance / required, MAX_RANGE_MILES) / MPG, kept exact as
\* min(distance, MAX_RANGE_MILES * required) / (required * MPG).
MakeStop(nearest_cheapest, distance, required) ==
    LET miles_num == Min(distance, MAX_RANGE_MILES * required) IN
    [price |-> nearest_cheapest.price,
     longitude |-> nearest_cheapest.location,
     gallons |-> RoundHalfEven(100 * miles_num, required * MPG),
     cost |-> RoundHalfEven(nearest_cheapest.price * miles_num, required * MPG),
     segment_distance |-> RoundHalfEven(100 * distance, required)]

\* Lines 98-133: the loop over the stops, from stop i on.
RECURSIVE StopsFrom(_, _, _, _, _)
StopsFrom(seg, distance, found, required, i) ==
    IF i >= required THEN <<>>
    ELSE LET cands == nearby(found, stop_point(seg, i, required))
             rest == StopsFrom(seg, distance, found, required, i + 1)
         IN  IF cands # <<>>
             THEN <<MakeStop(cands[1], distance, required)>> \o rest
             ELSE rest

\* Lines 72-139.  ret is the value returned: None or the list of stops;
\* logged says that the except clause ran (logger.error) and turned the
\* exception into None; found is the query's answer.  LineString() of a
\* single point raises; of no point it is empty, and nothing intersects its
\* buffer.
find_optimal_fuel_stops(seg, distance, table) ==
    IF Len(seg) = 1 \/ ~table.up
    THEN [ret |-> NoValue(<<>>), logged |-> TRUE, found |-> <<>>]
    ELSE LET found == IF seg = <<>> THEN <<>> ELSE QueryStations(table, seg) IN
         IF found = <<>>
         THEN [ret |-> NoValue(<<>>), logged |-> FALSE, found |-> found]
         ELSE LET optimal_stops ==
                      StopsFrom(seg, distance, found, required_stops(distance), 0)
              IN  [ret |-> IF optimal_stops # <<>> THEN Some(optimal_stops)
                                                   ELSE NoValue(<<>>),
                   logged |-> FALSE,
                   found |-> found]

----------------------------------------------------------------------------
(* OptimizedRouteView                                                      *)

\* Lines 222-227: min_lon, max_lon = -125.0, -66.0, which is 59 degrees of
\* 69 miles east of longitude -125; the road's latitude is inside 24..50.
US_LON_SPAN_DEGREES == 59

verify_us_location(coords) ==
    0 <= coords /\ coords <= US_LON_SPAN_DEGREES * MILES_PER_DEGREE

\* Lines 207-220: the geocoder's first hit, or None.  "NoMatch" stands for
\* every answer that gives None: an empty list, a status other than 200, a
\* request or parse exception.
get_coordinates(geo, location) ==
    IF geo[location].answer = "hit"
    THEN Some(geo[location].lon)
    ELSE NoValue(0)

\* Lines 229-231: generate_cache_key is declared in the class body with the
\* two parameters (start, end): no self, no @staticmethod.
GenerateCacheKeyParams == 2

\* Line 153: self.generate_cache_key(start, end) is a bound-method call, which
\* passes self before the two arguments.
BoundCallArgs == 3

\* The call of line 153: Python raises TypeError when the number of
\* positional arguments is not the number of parameters.  The key itself is
\* "route:" + md5("start|end"), modelled by the pair it is made from.
CacheKeyCall(start, end) ==
    IF BoundCallArgs # GenerateCacheKeyParams
    THEN [raised |-> "TypeError", key |-> <<>>]
    ELSE [raised |-> None, key |-> <<start, end>>]

NoCalls == [geocode |-> 0, directions |-> 0, station_queries |-> 0]

ErrorResponse(status, error) ==
    [status |-> status, error |-> error, total_fuel_cost |-> 0, waypoints |-> <<>>]

RECURSIVE SumCost(_)
SumCost(stops) ==
    IF stops = <<>> THEN 0 ELSE stops[1].cost + SumCost(Tail(stops))

\* Lines 176-180: the stops of the segments from k on, in segment order; a
\* segment whose locator returned None adds nothing.
RECURSIVE FuelStopsFrom(_, _, _)
FuelStopsFrom(segs, table, k) ==
    IF k > Len(segs.segments) THEN <<>>
    ELSE LET stops == find_optimal_fuel_stops(segs.segments[k],
                                              segs.segment_distances[k], table).ret
         IN  (IF ~stops.is_none THEN stops.value ELSE <<>>)
                 \o FuelStopsFrom(segs, table, k + 1)

\* Lines 173-201: from the route to the response.  Whole cents add up to
\* whole cents, so round(total_fuel_cost, 2) leaves the sum as it is.
PlanResponse(start_coords, end_coords, route, table) ==
    LET segs == calculate_route_segments(route, MAX_RANGE_MILES) IN
    IF segs.raised # None
    THEN [response |-> ErrorResponse(500, segs.raised), station_queries |-> 0]
    ELSE LET fuel_stops == FuelStopsFrom(segs, table, 1) IN
         [response |->
              IF fuel_stops = <<>>
              THEN ErrorResponse(404, "No fuel stations found along the route")
              ELSE [status |-> 200,
                    error |-> None,
                    total_fuel_cost |-> SumCost(fuel_stops),
                    waypoints |-> <<start_coords>>
                                  \o [k \in DOMAIN fuel_stops |-> fuel_stops[k].longitude]
                                  \o <<end_coords>>],
          station_queries |-> Len(segs.segments)]

\* Lines 144-205: post.  Every exception is caught by the handler's except
\* clause and answered with status 500 and the exception's text.
post(req, geo, provider, table, cch) ==
    IF req.start = "" \/ req.end = ""
    THEN [response |-> ErrorResponse(400, "start and end are required"),
          calls |-> NoCalls, cache |-> cch]
    ELSE LET key_call == CacheKeyCall(req.start, req.end)
             cache_key == key_call.key
         IN
    IF key_call.raised # None
    THEN [response |-> ErrorResponse(500, key_call.raised),
          calls |-> NoCalls, cache |-> cch]
    ELSE IF cache_key \in DOMAIN cch
    THEN [response |-> cch[cache_key], calls |-> NoCalls, cache |-> cch]
    ELSE LET start == get_coordinates(geo, req.start)
             end == get_coordinates(geo, req.end)
             start_coords == start.value
             end_coords == end.value
             geocoded == [NoCalls EXCEPT !.geocode = 2]
             routed == [geocoded EXCEPT !.directions = 1]
         IN
    IF start.is_none \/ end.is_none
    THEN [response |-> ErrorResponse(400, "Unable to geocode start or end location."),
          calls |-> geocoded, cache |-> cch]
    ELSE IF ~verify_us_location(start_coords) \/ ~verify_us_location(end_coords)
    THEN [response |-> ErrorResponse(400, "Both locations must be within the USA"),
          calls |-> geocoded, cache |-> cch]
    ELSE IF provider.raised # None
    THEN [response |-> ErrorResponse(500, provider.raised),
          calls |-> routed, cache |-> cch]
    ELSE LET plan == PlanResponse(start_coords, end_coords, provider.route, table) IN
         [response |-> plan.response,
          calls |-> [routed EXCEPT !.station_queries = plan.station_queries],
          cache |-> IF plan.response.status = 200
                    THEN [k \in DOMAIN cch \cup {cache_key} |->
                             IF k = cache_key THEN plan.response ELSE cch[k]]
                    ELSE cch]

----------------------------------------------------------------------------
(* Specification of the segmenter on its own: any route, any length        *)

Idle == <<>>

InitSeg ==
    /\ pc = "call"
    /\ route_coordinates \in Routes
    /\ max_segment_length \in SegmentLengths
    /\ seg_ret = None
    /\ route_segment = Idle /\ segment_distance = 0
    /\ stations = Idle /\ fs_ret = None
    /\ nominatim = Idle /\ ors = Idle /\ fuel_table = Idle
    /\ cache = Idle /\ request = Idle /\ response = None /\ calls = NoCalls

CallSegments ==
    /\ pc = "call"
    /\ seg_ret' = calculate_route_segments(route_coordinates, max_segment_length)
    /\ pc' = "returned"
    /\ UNCHANGED <<route_coordinates, max_segment_length, route_segment,
                   segment_distance, stations, fs_ret, nominatim, ors,
                   fuel_table, cache, request, response, calls>>

NextSeg == CallSegments

SpecSeg == InitSeg /\ [][NextSeg]_vars

----------------------------------------------------------------------------
(* Specification of the fuel stop locator on its own                       *)

MaxStopPoints == 2

StopSegments ==
    UNION {[1..n -> {k * GridMiles : k \in 0..MaxSegGrid}] : n \in 0..MaxStopPoints}
StopDistances == {MAX_RANGE_MILES, MAX_RANGE_MILES + GridMiles}

InitStops ==
    /\ pc = "call"
    /\ route_segment \in StopSegments
    /\ segment_distance \in StopDistances
    /\ fuel_table \in FuelTables
    /\ stations = Idle /\ fs_ret = None
    /\ route_coordinates = Idle /\ max_segment_length = 0 /\ seg_ret = None
    /\ nominatim = Idle /\ ors = Idle
    /\ cache = Idle /\ request = Idle /\ response = None /\ calls = NoCalls

CallFindStops ==
    /\ pc = "call"
    /\ LET r == find_optimal_fuel_stops(route_segment, segment_distance, fuel_table)
       IN  /\ stations' = r.found
           /\ fs_ret' = [ret |-> r.ret, logged |-> r.logged]
    /\ pc' = "returned"
    /\ UNCHANGED <<route_coordinates, max_segment_length, seg_ret, route_segment,
                   segment_distance, nominatim, ors, fuel_table, cache, request,
                   response, calls>>

NextStops == CallFindStops

SpecStops == InitStops /\ [][NextStops]_vars

----------------------------------------------------------------------------
(* Specification of the request handler: a server with an empty cache, in  *)
(* a world that fixes what the geocoder, the route provider and the        *)
(* station table answer, serving one request after another.                *)

Texts == {"A", "B"}
MaxPlanGrid == 2
MaxPlanPoints == 2
MaxPlanStations == 2
GeoAnswers ==
    [answer : {"NoMatch"}, lon : {0}]
        \cup [answer : {"hit"}, lon : {0, MaxPlanGrid * MAX_RANGE_MILES, -MILES_PER_DEGREE}]
PlanRoutes ==
    UNION {[1..n -> {k * MAX_RANGE_MILES : k \in 0..MaxPlanGrid}] : n \in 0..MaxPlanPoints}
RouteAnswers ==
    [raised : {None}, route : PlanRoutes] \cup {[raised |-> "ApiError", route |-> <<>>]}

Init ==
    /\ pc = "call"
    /\ nominatim \in [Texts -> GeoAnswers]
    /\ ors \in RouteAnswers
    /\ fuel_table \in {t \in FuelTables : Len(t.rows) <= MaxPlanStations}
    /\ cache = <<>>
    /\ request = Idle /\ response = None /\ calls = NoCalls
    /\ route_coordinates = Idle /\ max_segment_length = 0 /\ seg_ret = None
    /\ route_segment = Idle /\ segment_distance = 0
    /\ stations = Idle /\ fs_ret = None

Post(start, end) ==
    LET req == [start |-> start, end |-> end]
        r == post(req, nominatim, ors, fuel_table, cache)
    IN  /\ request' = req
        /\ response' = r.response
        /\ calls' = r.calls
        /\ cache' = r.cache
        /\ pc' = "returned"
        /\ UNCHANGED <<route_coordinates, max_segment_length, seg_ret, route_segment,
                       segment_distance, stations, fs_ret, nominatim, ors, fuel_table>>

Next == \E start, end \in Texts \cup {""} : Post(start, end)

Spec == Init /\ [][Next]_vars

----------------------------------------------------------------------------
(* Properties of calculate_route_segments, under SpecSeg                   *)

RECURSIVE RouteLength(_)
RouteLength(route) ==
    IF Len(route) < 2 THEN 0
    ELSE geodesic_miles(route[1], route[2]) + RouteLength(Tail(route))

RECURSIVE SumSeq(_)
SumSeq(s) == IF s = <<>> THEN 0 ELSE s[1] + SumSeq(Tail(s))

SegmentsReturned == pc = "returned" /\ seg_ret.raised = None

\* C1: for every route of at least 2 points and every maximum M, every
\* distance returned in segment_distances is at most M.
C1_EverySegmentWithinMax ==
    (SegmentsReturned /\ Len(route_coordinates) >= 2)
        => \A k \in DOMAIN seg_ret.segment_distances :
               seg_ret.segment_distances[k] <= max_segment_length

\* C2: for every route of length L > 0 and every maximum M, the number of
\* segments returned is ceil(L / M), which is L / M when M divides L.
C2_SegmentCountIsCeiling ==
    (SegmentsReturned /\ Len(route_coordinates) >= 2
                      /\ RouteLength(route_coordinates) > 0)
        => Len(seg_ret.segments)
               = Ceil(RouteLength(route_coordinates), max_segment_length)

----------------------------------------------------------------------------
(* Properties of find_optimal_fuel_stops, under SpecStops                  *)

Range(s) == {s[k] : k \in DOMAIN s}

StopsReturned == pc = "returned" /\ ~fs_ret.ret.is_none

\* The target point of stop i (0-based) of the call in the state.
TargetPoint(i) ==
    stop_point(route_segment, i, required_stops(segment_distance))

Targets == [k \in 1..required_stops(segment_distance) |-> k - 1]

\* The targets, in order, that have a candidate passing the filter of line 109.
TargetsWithCandidate ==
    SelectSeq(Targets, LAMBDA i :
        \E s \in Range(stations) : WithinSearchRadius(s, TargetPoint(i)))

\* The targets, in order, that have a retrieved station within the radius.
TargetsWithStationInRadius ==
    SelectSeq(Targets, LAMBDA i :
        \E s \in Range(stations) :
            Abs(s.location - TargetPoint(i)) <= SEARCH_RADIUS_MILES)

\* C7: when the station query of a call fails, the call does not return the
\* value that stands for "no stations for this segment" (None).
C7_FailedQueryIsNotNoStations ==
    (pc = "returned" /\ ~fuel_table.up /\ Len(route_segment) >= 2)
        => ~fs_ret.ret.is_none

\* C8: the station selected at a target is one of the candidates considered
\* there (those that pass the filter of line 109), none of them is cheaper,
\* and none of those at its price is nearer to the target.
C8_CheapestThenNearest ==
    StopsReturned
        => LET served == TargetsWithCandidate
               stops == fs_ret.ret.value
           IN  /\ Len(stops) = Len(served)
               /\ \A k \in DOMAIN stops :
                      LET point == TargetPoint(served[k])
                          cands == {s \in Range(stations) : WithinSearchRadius(s, point)}
                      IN  /\ \E c \in cands : /\ c.price = stops[k].price
                                              /\ c.location = stops[k].longitude
                          /\ \A s \in cands :
                                 /\ stops[k].price <= s.price
                                 /\ s.price = stops[k].price
                                        => Abs(stops[k].longitude - point)
                                               <= Abs(s.location - point)

\* C8's case: at the first target a cheaper candidate lies farther away than a
\* dearer one, and a second candidate at the chosen price lies farther away
\* than the chosen one.
C8_PriceAndDistanceCompete ==
    /\ StopsReturned
    /\ \E a, b, c \in Range(stations) :
           /\ a.price < b.price
           /\ Abs(a.location - TargetPoint(0)) > Abs(b.location - TargetPoint(0))
           /\ c.price = fs_ret.ret.value[1].price
           /\ Abs(c.location - TargetPoint(0))
                  > Abs(fs_ret.ret.value[1].longitude - TargetPoint(0))

\* C9: a stop is emitted exactly for the targets that have a retrieved
\* station within SEARCH_RADIUS_MILES miles, and the station of each stop
\* lies within that radius of its target.
C9_StopsWithinSearchRadius ==
    (pc = "returned" /\ fuel_table.up /\ Len(route_segment) >= 2)
        => LET served == TargetsWithStationInRadius
               stops == fs_ret.ret.value
           IN  /\ fs_ret.ret.is_none <=> served = <<>>
               /\ Len(stops) = Len(served)
               /\ \A k \in DOMAIN stops :
                      k <= Len(served)
                          => Abs(stops[k].longitude - TargetPoint(served[k]))
                                 <= SEARCH_RADIUS_MILES

----------------------------------------------------------------------------
(* Properties of a planning request, under Spec                            *)

\* The failure kind a response stands for.
FailureKind(r) ==
    CASE r.status = 200 -> "None"
      [] r.status = 404 -> "NoStationsFound"
      [] r.status = 500 -> "UpstreamError"
      [] r.error = "Unable to geocode start or end location." -> "LocationNotFound"
      [] r.error = "Both locations must be within the USA" -> "LocationOutOfBounds"
      [] OTHER -> "BadRequest"

Answered == pc = "returned" /\ request.start # "" /\ request.end # ""

Resolves(text) ==
    /\ ~get_coordinates(nominatim, text).is_none
    /\ verify_us_location(get_coordinates(nominatim, text).value)

\* C3: a request for which the geocoder has no answer for the start or the
\* end fails with LocationNotFound without a directions call or a station
\* query; a request whose directions call fails makes no station query.
C3_FailsFastWithLocationNotFound ==
    Answered
        => /\ (get_coordinates(nominatim, request.start).is_none
                   \/ get_coordinates(nominatim, request.end).is_none)
                  => /\ FailureKind(response) = "LocationNotFound"
                     /\ calls.directions = 0
                     /\ calls.station_queries = 0
           /\ (calls.directions > 0 /\ ors.raised # None)
                  => calls.station_queries = 0

\* The world of scenario A: a route of exactly 1000 miles, cut into two
\* segments of 500 miles, with one station at $3.00 in each corridor.
ScenarioA ==
    /\ Resolves(request.start) /\ Resolves(request.end)
    /\ ors.raised = None /\ fuel_table.up
    /\ Len(ors.route) >= 2
    /\ RouteLength(ors.route) = 2 * MAX_RANGE_MILES
    /\ LET segs == calculate_route_segments(ors.route, MAX_RANGE_MILES) IN
           /\ segs.segment_distances = <<MAX_RANGE_MILES, MAX_RANGE_MILES>>
           /\ \A k \in DOMAIN segs.segments :
                  LET found == QueryStations(fuel_table, segs.segments[k]) IN
                      Len(found) = 1 /\ found[1].price = 300

\* C4: the request of scenario A succeeds with 2 fuel stops (4 waypoints)
\* and a total fuel cost of $300.00.
C4_ScenarioACostsThreeHundred ==
    (Answered /\ ScenarioA)
        => /\ response.status = 200
           /\ Len(response.waypoints) = 4
           /\ response.total_fuel_cost = 30000

\* C5: a request whose locations resolve and whose route is obtained fails
\* with NoStationsFound exactly when no segment yields a stop; otherwise it
\* succeeds with the stops of the segments that have some, at the sum of
\* their costs.
C5_NoStationsOnlyWhenNoStopAtAll ==
    (Answered /\ Resolves(request.start) /\ Resolves(request.end)
              /\ ors.raised = None /\ Len(ors.route) >= 2
              /\ calculate_route_segments(ors.route, MAX_RANGE_MILES).raised = None)
        => LET segs == calculate_route_segments(ors.route, MAX_RANGE_MILES)
               fuel_stops == FuelStopsFrom(segs, fuel_table, 1)
           IN  /\ FailureKind(response) = "NoStationsFound" <=> fuel_stops = <<>>
               /\ fuel_stops # <<>>
                      => /\ response.status = 200
                         /\ response.total_fuel_cost = SumCost(fuel_stops)
                         /\ Len(response.waypoints) = Len(fuel_stops) + 2

\* C6: a request whose route comes back with fewer than 2 points fails with
\* RouteUnavailable, and makes no station query.
C6_ShortGeometryIsRouteUnavailable ==
    (Answered /\ Resolves(request.start) /\ Resolves(request.end)
              /\ ors.raised = None /\ Len(ors.route) < 2)
        => /\ FailureKind(response) = "RouteUnavailable"
           /\ calls.station_queries = 0

====
